---- MODULE Spec2Model ----
(***************************************************************************)
(* The match orchestrator of WiredWolf (wiredwolf/model/game.py) over the  *)
(* Player entity (wiredwolf/model/player.py).                              *)
(*                                                                         *)
(* A Player object is identified by its roster id.  The three vote maps    *)
(* are Python dicts keyed by Player objects; Player.__hash__ covers the    *)
(* mutable status, so an entry remembers the status under which its key    *)
(* was hashed when it was inserted, and a lookup made after the key's      *)
(* status changed may or may not reach that entry.                         *)
(*                                                                         *)
(* Every method of Game is an operator from the Game it is called on (a    *)
(* record of the fields) to the Game it leaves, whose field ret holds the  *)
(* value returned or the name of the exception raised.                     *)
(***************************************************************************)
EXTENDS Integers, Sequences, FiniteSets, TLC

\* Bound of the model: number of entries the three vote maps hold together.
MaxVotes == 3

\* The entries the vote maps of a rule chain hold together, at most.
MaxRulesVotes == 1

\* player.py, class Role
WEREWOLF == "Werewolf"
VILLAGER == "Villager"
ESCORT == "Escort"
CLAIRVOYANT == "Clairvoyant"
MEDIUM == "Medium"

\* player.py, class Status
ALIVE == "Alive"
PROTECTED == "Protected"
DEAD == "Dead"

Status == {ALIVE, PROTECTED, DEAD}

\* game.py, class GamePhase
DAY_DISCUSSION == "DAY_DISCUSSION"
DAY_ACCUSING == "DAY_ACCUSING"
DAY_BALLOT == "DAY_BALLOT"
NIGHT == "NIGHT"
VILLAGERS_VICTORY == "VILLAGERS_VICTORY"
WEREWOLVES_VICTORY == "WEREWOLVES_VICTORY"

GamePhase ==
    {DAY_DISCUSSION, DAY_ACCUSING, DAY_BALLOT, NIGHT, VILLAGERS_VICTORY, WEREWOLVES_VICTORY}

VictoryPhases == {VILLAGERS_VICTORY, WEREWOLVES_VICTORY}

\* Python's None
None == "None"

\* A returned bool, as the caller sees it
PyBool(b) == IF b THEN "True" ELSE "False"

\* The players the tests make their rosters of.
populate_players ==
    << [id |-> "Alice", role |-> VILLAGER],
       [id |-> "Bob", role |-> WEREWOLF],
       [id |-> "Charlie", role |-> ESCORT],
       [id |-> "Diana", role |-> CLAIRVOYANT],
       [id |-> "Eve", role |-> MEDIUM],
       [id |-> "Frank", role |-> WEREWOLF],
       [id |-> "Grace", role |-> VILLAGER] >>

\* Player.role
RoleOf ==
    [p \in {populate_players[i].id : i \in DOMAIN populate_players} |->
        populate_players[CHOOSE i \in DOMAIN populate_players : populate_players[i].id = p].role]

role(p) == RoleOf[p]

\* The rosters handed to Game.__init__: two werewolves with a villager and
\* the escort, and two werewolves with the clairvoyant and the medium.
EscortRoster == {"Alice", "Bob", "Charlie", "Frank"}

SeerRoster == {"Bob", "Diana", "Eve", "Frank"}

\* The players a rule chain is driven with: one of each role it tells apart.
RulesRoster == {"Bob", "Charlie", "Diana", "Eve"}

\* An id that resolves to no roster member.
UnknownId == "Mallory"

VARIABLES
    phase,               \* Game._phase
    status,              \* Player._status of every roster member
    accusing_votes,      \* Game._accusing_votes
    current_accusation,  \* Game._current_accusation
    protected_player,    \* Game._protected_player
    wolves_votes,        \* Game._wolves_votes
    ballot_votes,        \* Game._ballot_votes
    probe,               \* per player: does a lookup under a changed hash reach the old entry
    rules                \* the rule chain: an AbstractGameInfo and what it wraps

vars ==
    << phase, status, accusing_votes, current_accusation, protected_player,
       wolves_votes, ballot_votes, probe, rules >>

\* Game._players, by id
Players == DOMAIN status

Ids == Players \cup {UnknownId}

\* The Game object as it stands, no call made on it yet.
self ==
    [ phase |-> phase,
      status |-> status,
      accusing_votes |-> accusing_votes,
      current_accusation |-> current_accusation,
      protected_player |-> protected_player,
      wolves_votes |-> wolves_votes,
      ballot_votes |-> ballot_votes,
      ret |-> None ]

\* The exceptions a call can end with.
Exceptions == {"ValueError", "KeyError", "RuntimeError"}

\* return r / raise e, leaving the Game g
Return(g, r) == [g EXCEPT !.ret = r]

Raise(g, e) == [g EXCEPT !.ret = e]

Raised(g) == g.ret \in Exceptions

\* Player.is_alive
is_alive(st, p) == st[p] # DEAD

\* Game.__get_player_from_id
get_player_from_id(player_id) ==
    IF player_id \in Players THEN player_id ELSE None

(***************************************************************************)
(* Python dict keyed by Player.  An entry is [k, h, v]: key, the status    *)
(* that went into the key's hash at insertion, value.  _wolves_votes is    *)
(* kept in insertion order, the order kill_player iterates it in;          *)
(* _accusing_votes and _ballot_votes are only looked up, counted and       *)
(* deleted from, so they are kept as sets of entries.                      *)
(***************************************************************************)
MinOf(S) == CHOOSE x \in S : \A y \in S : x <= y

\* The entries of a dict kept in insertion order.
Entries(d) == {d[i] : i \in DOMAIN d}

\* The entries of E stored under key k with the hash k has now.
Exact(E, st, k) == {e \in E : e.k = k /\ e.h = st[k]}

\* The entries of E stored under key k with an earlier hash.
Stale(E, st, k) == {e \in E : e.k = k /\ e.h # st[k]}

\* Player.__hash__ / __eq__ seen through a dict lookup: the entries a lookup
\* of k finds (one or none).  An entry stored under the current hash is
\* found; one stored under an earlier hash is found only when the probe
\* sequence of the current hash runs into it (hh[k] = "hit").
Lookup(E, st, k, hh) ==
    IF Exact(E, st, k) # {} THEN {CHOOSE e \in Exact(E, st, k) : TRUE}
    ELSE IF Stale(E, st, k) # {} /\ hh[k] = "hit" THEN {CHOOSE e \in Stale(E, st, k) : TRUE}
    ELSE {}

\* The same lookup in a dict kept in insertion order: the index found, or 0.
LookupIdx(d, st, k, hh) ==
    LET found == Lookup(Entries(d), st, k, hh)
    IN IF found = {} THEN 0 ELSE MinOf({i \in DOMAIN d : d[i] \in found})

\* d[k] = v for a key the lookup did not find
DictAdd(E, st, k, v) == E \cup {[k |-> k, h |-> st[k], v |-> v]}

\* del d[i-th entry] in a dict kept in insertion order
DictDel(d, i) == [j \in 1..(Len(d) - 1) |-> IF j < i THEN d[j] ELSE d[j + 1]]

\* The keys among K whose lookup in E is not settled by the hashes alone.
Undecided(E, st, K) ==
    {p \in K \cap Players :
        probe[p] = "?" /\ Stale(E, st, p) # {} /\ Exact(E, st, p) = {}}

NoProbe == [p \in Players |-> "?"]

\* The lookup outcomes a call can meet when U are the undecided keys it
\* looks up: the outcomes already observed stay, each key of U gets one
\* outcome for the whole call.
ProbeOutcomes(U) ==
    IF U = {} THEN {probe}
    ELSE {[p \in Players |->
              IF p \in S THEN "hit" ELSE IF p \in U THEN "miss" ELSE probe[p]]
              : S \in SUBSET U}

\* The lookup outcomes of a call that looks the keys K up in the dict with
\* entries E.
ProbeChoices(E, st, K) == ProbeOutcomes(Undecided(E, st, K))

\* Does one of the vote maps of g hold an entry stored under an earlier hash
\* of player p?
HoldsStale(g, p) ==
    \/ Stale(g.accusing_votes, g.status, p) # {}
    \/ Stale(g.ballot_votes, g.status, p) # {}
    \/ Stale(Entries(g.wolves_votes), g.status, p) # {}

\* The lookup outcomes that stay observed after a call made under the
\* outcomes hh that left the Game g: an outcome lasts as long as some map
\* holds an entry stored under an earlier hash of the player.
Settle(hh, g) ==
    IF hh = NoProbe THEN NoProbe
    ELSE [p \in Players |-> IF HoldsStale(g, p) THEN hh[p] ELSE "?"]

\* Number of entries in the three vote maps of g.
VotesHeld(g) ==
    Cardinality(g.accusing_votes) + Cardinality(g.ballot_votes) + Len(g.wolves_votes)

\* collections.Counter(d.values())
Counter(E) == [t \in {e.v : e \in E} |-> Cardinality({e \in E : e.v = t})]

\* max(vote_counts.values()) and the list of the players that reach it
MostVoted(E) ==
    LET vote_counts == Counter(E)
    IN {t \in DOMAIN vote_counts : \A u \in DOMAIN vote_counts : vote_counts[u] <= vote_counts[t]}

\* Counter(votes.values()).items() for the votes in the order they were cast:
\* each player voted for, at its first vote, with the votes it got.
vote_counts_items(votes) ==
    LET first == {i \in DOMAIN votes : \A j \in DOMAIN votes : votes[j].v = votes[i].v => i <= j}
        name(n) == votes[CHOOSE i \in first : Cardinality({j \in first : j < i}) = n - 1].v
    IN [n \in 1..Cardinality(first) |->
           << name(n), Cardinality({j \in DOMAIN votes : votes[j].v = name(n)}) >>]

\* The list of the most voted players that stops at the first of them.
most_voted_list_first_only(votes) ==
    LET items == vote_counts_items(votes)
        most == SelectSeq(items, LAMBDA it : \A n \in DOMAIN items : items[n][2] <= it[2])
    IN IF Len(most) = 0 THEN << >> ELSE << most[1] >>

\* [name for name, count in vote_counts.items() if count == max_votes]
most_voted_list(votes) ==
    LET items == vote_counts_items(votes)
    IN SelectSeq(items, LAMBDA it : \A n \in DOMAIN items : items[n][2] <= it[2])

\* Game.__check_victory_conditions without its guard on the phases that end
\* the match: a victory that is declared again on every check.
check_victory_conditions_unguarded(g) ==
    LET werewolves == {p \in Players : role(p) = WEREWOLF /\ g.status[p] = ALIVE}
        villagers ==
            {p \in Players : role(p) # WEREWOLF /\ g.status[p] \in {ALIVE, PROTECTED}}
    IN IF werewolves = {} THEN [g EXCEPT !.phase = VILLAGERS_VICTORY]
       ELSE IF villagers = {} THEN [g EXCEPT !.phase = WEREWOLVES_VICTORY]
       ELSE g

\* Game.__check_victory_conditions
check_victory_conditions(g) ==
    IF g.phase \notin VictoryPhases
    THEN LET werewolves == {p \in Players : role(p) = WEREWOLF /\ g.status[p] = ALIVE}
             villagers ==
                 {p \in Players : role(p) # WEREWOLF /\ g.status[p] \in {ALIVE, PROTECTED}}
         IN IF werewolves = {} THEN [g EXCEPT !.phase = VILLAGERS_VICTORY]
            ELSE IF villagers = {} THEN [g EXCEPT !.phase = WEREWOLVES_VICTORY]
            ELSE g
    ELSE g

\* Game.__setup_new_day emptying the protected-player slot without giving
\* the player its status back.
setup_new_day_keeps_status(g) ==
    [g EXCEPT !.accusing_votes = {}, !.wolves_votes = << >>, !.ballot_votes = {},
              !.protected_player = None]

\* Game.__setup_new_day that leaves the ballots where they are.
setup_new_day_keeps_ballots(g) ==
    LET cleared == [g EXCEPT !.accusing_votes = {}, !.wolves_votes = << >>]
    IN IF g.protected_player # None
       THEN [cleared EXCEPT !.status[g.protected_player] = ALIVE, !.protected_player = None]
       ELSE cleared

\* Game.__setup_new_day
setup_new_day(g) ==
    LET cleared == [g EXCEPT !.accusing_votes = {}, !.wolves_votes = << >>, !.ballot_votes = {}]
    IN IF g.protected_player # None
       THEN [cleared EXCEPT !.status[g.protected_player] = ALIVE, !.protected_player = None]
       ELSE cleared

\* The ballot threshold of advance_phase: confirm of voting_count ballots.
BallotApproved(voting_count, confirm) == voting_count > 0 /\ 2 * confirm >= voting_count

\* Game.advance_phase, case DAY_ACCUSING, accusing the first of the most
\* voted players where the code wants them to be one.
advance_accusing_first_of_tie(g) ==
    IF g.accusing_votes = {}
    THEN Return([g EXCEPT !.phase = NIGHT], NIGHT)
    ELSE LET accused_players == MostVoted(g.accusing_votes)
             g1 == [g EXCEPT !.phase = DAY_BALLOT,
                             !.current_accusation = CHOOSE p \in accused_players : TRUE]
             g2 == check_victory_conditions(g1)
         IN Return(g2, g2.phase)

\* Game.advance_phase, case DAY_ACCUSING, that waits for an accusation: with
\* no vote cast it returns the phase it found.
advance_accusing_waits_for_votes(g) ==
    IF g.accusing_votes = {}
    THEN Return(g, g.phase)
    ELSE LET accused_players == MostVoted(g.accusing_votes)
             g1 == IF Cardinality(accused_players) = 1
                   THEN [g EXCEPT !.phase = DAY_BALLOT,
                                  !.current_accusation = CHOOSE p \in accused_players : TRUE]
                   ELSE [g EXCEPT !.phase = NIGHT]
             g2 == check_victory_conditions(g1)
         IN Return(g2, g2.phase)

\* Game.advance_phase, case DAY_ACCUSING, that opens the ballot on a tie as
\* well, with no accused player.
advance_accusing_tie_to_ballot(g) ==
    IF g.accusing_votes = {}
    THEN Return([g EXCEPT !.phase = NIGHT], NIGHT)
    ELSE LET accused_players == MostVoted(g.accusing_votes)
             g1 == IF Cardinality(accused_players) = 1
                   THEN [g EXCEPT !.phase = DAY_BALLOT,
                                  !.current_accusation = CHOOSE p \in accused_players : TRUE]
                   ELSE [g EXCEPT !.phase = DAY_BALLOT]
             g2 == check_victory_conditions(g1)
         IN Return(g2, g2.phase)

\* Game.advance_phase, case DAY_ACCUSING
advance_accusing(g) ==
    IF g.accusing_votes = {}
    THEN Return([g EXCEPT !.phase = NIGHT], NIGHT)
    ELSE LET accused_players == MostVoted(g.accusing_votes)
             g1 == IF Cardinality(accused_players) = 1
                   THEN [g EXCEPT !.phase = DAY_BALLOT,
                                  !.current_accusation = CHOOSE p \in accused_players : TRUE]
                   ELSE [g EXCEPT !.phase = NIGHT]
             g2 == check_victory_conditions(g1)
         IN Return(g2, g2.phase)

\* Game.advance_phase, case DAY_ACCUSING, on the accusations of g in the
\* order votes in which they were cast
advance_accusing_cast(g, votes) ==
    IF Len(votes) = 0
    THEN Return([g EXCEPT !.phase = NIGHT], NIGHT)
    ELSE LET accused_players == most_voted_list(votes)
             g1 == IF Len(accused_players) = 1
                   THEN [g EXCEPT !.phase = DAY_BALLOT,
                                  !.current_accusation = accused_players[1][1]]
                   ELSE [g EXCEPT !.phase = NIGHT]
             g2 == check_victory_conditions(g1)
         IN Return(g2, g2.phase)

\* Game.advance_phase, case DAY_BALLOT, that ends the round as the case
\* NIGHT does and opens a new day.
advance_ballot_to_new_day(g) ==
    LET voting_count == Cardinality(g.ballot_votes)
        confirm_ballot_votes == Cardinality({e \in g.ballot_votes : e.v})
        g1 == IF g.current_accusation # None
              THEN IF BallotApproved(voting_count, confirm_ballot_votes)
                   THEN [g EXCEPT !.status[g.current_accusation] = DEAD,
                                  !.current_accusation = None]
                   ELSE [g EXCEPT !.current_accusation = None]
              ELSE g
        g2 == check_victory_conditions([setup_new_day(g1) EXCEPT !.phase = DAY_DISCUSSION])
    IN Return(g2, g2.phase)

\* Game.advance_phase, case DAY_BALLOT
advance_ballot(g) ==
    LET voting_count == Cardinality(g.ballot_votes)
        confirm_ballot_votes == Cardinality({e \in g.ballot_votes : e.v})
        g1 == IF g.current_accusation # None
              THEN IF BallotApproved(voting_count, confirm_ballot_votes)
                   THEN [g EXCEPT !.status[g.current_accusation] = DEAD,
                                  !.current_accusation = None]
                   ELSE [g EXCEPT !.current_accusation = None]
              ELSE g
        g2 == check_victory_conditions([g1 EXCEPT !.phase = NIGHT])
    IN Return(g2, g2.phase)

\* Game.advance_phase, case NIGHT, killing the first of the most voted
\* players where the code wants them to be one.
advance_night_first_of_tie(g) ==
    LET wolves_victims == MostVoted(Entries(g.wolves_votes))
        g1 == IF /\ wolves_victims # {}
                 /\ g.status[CHOOSE victim \in wolves_victims : TRUE] # PROTECTED
              THEN [g EXCEPT !.status[CHOOSE victim \in wolves_victims : TRUE] = DEAD]
              ELSE g
        g2 == check_victory_conditions([setup_new_day(g1) EXCEPT !.phase = DAY_DISCUSSION])
    IN Return(g2, g2.phase)

\* Game.advance_phase, case NIGHT, that kills every most voted player that
\* is not protected when the votes of the werewolves tie.
advance_night_kills_all_tied(g) ==
    LET wolves_victims == MostVoted(Entries(g.wolves_votes))
        g1 == [g EXCEPT !.status =
                  [p \in DOMAIN g.status |->
                      IF p \in wolves_victims /\ g.status[p] # PROTECTED
                      THEN DEAD ELSE g.status[p]]]
        g2 == check_victory_conditions([setup_new_day(g1) EXCEPT !.phase = DAY_DISCUSSION])
    IN Return(g2, g2.phase)

\* Game.advance_phase, case NIGHT
advance_night(g) ==
    LET wolves_victims == MostVoted(Entries(g.wolves_votes))
        g1 == IF /\ Cardinality(wolves_victims) = 1
                 /\ \A victim \in wolves_victims : g.status[victim] # PROTECTED
              THEN [g EXCEPT !.status[CHOOSE victim \in wolves_victims : TRUE] = DEAD]
              ELSE g
        g2 == check_victory_conditions([setup_new_day(g1) EXCEPT !.phase = DAY_DISCUSSION])
    IN Return(g2, g2.phase)

\* Game.advance_phase, case NIGHT, on the votes of the werewolves of g in the
\* order votes in which they were cast
advance_night_cast(g, votes) ==
    LET wolves_victims == most_voted_list(votes)
        g1 == IF Len(wolves_victims) = 1 /\ g.status[wolves_victims[1][1]] # PROTECTED
              THEN [g EXCEPT !.status[wolves_victims[1][1]] = DEAD]
              ELSE g
        g2 == check_victory_conditions([setup_new_day(g1) EXCEPT !.phase = DAY_DISCUSSION])
    IN Return(g2, g2.phase)

\* Game.advance_phase
advance_phase(g) ==
    IF g.phase = DAY_DISCUSSION
    THEN LET g1 == check_victory_conditions([g EXCEPT !.phase = DAY_ACCUSING])
         IN Return(g1, g1.phase)
    ELSE IF g.phase = DAY_ACCUSING THEN advance_accusing(g)
    ELSE IF g.phase = DAY_BALLOT THEN advance_ballot(g)
    ELSE IF g.phase = NIGHT THEN advance_night(g)
    ELSE LET g1 == check_victory_conditions(g) IN Return(g1, g1.phase)

\* Game.accuse_player without the test on the phase.
accuse_player_any_phase(g, voter_id, target_id, hh) ==
    LET voter == get_player_from_id(voter_id)
        target == get_player_from_id(target_id)
    IN IF voter # None /\ target # None
       THEN IF /\ Lookup(g.accusing_votes, g.status, voter, hh) = {}
               /\ is_alive(g.status, voter)
               /\ is_alive(g.status, target)
            THEN Return([g EXCEPT !.accusing_votes =
                                      DictAdd(g.accusing_votes, g.status, voter, target)],
                        None)
            ELSE Raise(g, "ValueError")
       ELSE Raise(g, "ValueError")

\* Game.accuse_player, under the lookup outcomes hh
accuse_player(g, voter_id, target_id, hh) ==
    IF g.phase = DAY_ACCUSING
    THEN LET voter == get_player_from_id(voter_id)
             target == get_player_from_id(target_id)
         IN IF voter # None /\ target # None
            THEN IF /\ Lookup(g.accusing_votes, g.status, voter, hh) = {}
                    /\ is_alive(g.status, voter)
                    /\ is_alive(g.status, target)
                 THEN Return([g EXCEPT !.accusing_votes =
                                           DictAdd(g.accusing_votes, g.status, voter, target)],
                             None)
                 ELSE Raise(g, "ValueError")
            ELSE Raise(g, "ValueError")
    ELSE Raise(g, "ValueError")

\* Game.ballot_vote without the test that the voter has no ballot yet: a
\* second ballot replaces the first.
ballot_vote_overwrite(g, voter_id, vote, hh) ==
    IF g.phase = DAY_BALLOT
    THEN LET voter == get_player_from_id(voter_id)
         IN IF voter # None /\ is_alive(g.status, voter)
            THEN Return([g EXCEPT !.ballot_votes =
                                      DictAdd(g.ballot_votes
                                                  \ Lookup(g.ballot_votes, g.status, voter, hh),
                                              g.status, voter, vote)],
                        None)
            ELSE Raise(g, "ValueError")
    ELSE Raise(g, "ValueError")

\* Game.ballot_vote, under the lookup outcomes hh
ballot_vote(g, voter_id, vote, hh) ==
    IF g.phase = DAY_BALLOT
    THEN LET voter == get_player_from_id(voter_id)
         IN IF /\ voter # None
               /\ Lookup(g.ballot_votes, g.status, voter, hh) = {}
               /\ is_alive(g.status, voter)
            THEN Return([g EXCEPT !.ballot_votes =
                                      DictAdd(g.ballot_votes, g.status, voter, vote)],
                        None)
            ELSE Raise(g, "ValueError")
    ELSE Raise(g, "ValueError")

\* Game.__werewolf_action
werewolf_action(g, target_id, werewolf, hh) ==
    IF LookupIdx(g.wolves_votes, g.status, werewolf, hh) = 0
    THEN LET target == get_player_from_id(target_id)
         IN IF target # None /\ is_alive(g.status, target) /\ role(target) # WEREWOLF
            THEN Return([g EXCEPT !.wolves_votes =
                                      Append(g.wolves_votes,
                                             [k |-> werewolf, h |-> g.status[werewolf],
                                              v |-> target])],
                        None)
            ELSE Raise(g, "ValueError")
    ELSE Return(g, None)

\* Game.__escort_action without the test on the protected-player slot.
escort_action_any_number(g, target_id) ==
    LET target == get_player_from_id(target_id)
    IN IF target # None /\ g.status[target] = ALIVE
       THEN Return([g EXCEPT !.status[target] = PROTECTED, !.protected_player = target], None)
       ELSE Raise(g, "ValueError")

\* Game.__escort_action
escort_action(g, target_id) ==
    LET target == get_player_from_id(target_id)
    IN IF target # None /\ g.status[target] = ALIVE /\ g.protected_player = None
       THEN Return([g EXCEPT !.status[target] = PROTECTED, !.protected_player = target], None)
       ELSE Raise(g, "ValueError")

\* Game.__clairvoyant_action
clairvoyant_action(g, target_id) ==
    LET target == get_player_from_id(target_id)
    IN IF target # None /\ is_alive(g.status, target)
       THEN Return(g, PyBool(role(target) = WEREWOLF))
       ELSE Raise(g, "ValueError")

\* Game.__medium_action taking any target that is not alive and no more:
\* a living one passes as well.
medium_action_any_target(g, target_id) ==
    LET target == get_player_from_id(target_id)
    IN IF target # None
       THEN Return(g, PyBool(role(target) = WEREWOLF))
       ELSE Raise(g, "ValueError")

\* Game.__medium_action
medium_action(g, target_id) ==
    LET target == get_player_from_id(target_id)
    IN IF target # None /\ g.status[target] = DEAD
       THEN Return(g, PyBool(role(target) = WEREWOLF))
       ELSE Raise(g, "ValueError")

\* Game.perform_night_action, under the lookup outcomes hh
perform_night_action(g, actor_id, target_id, hh) ==
    LET actor == get_player_from_id(actor_id)
    IN IF g.phase # NIGHT THEN Raise(g, "ValueError")
       ELSE IF actor = None \/ ~is_alive(g.status, actor) THEN Raise(g, "ValueError")
       ELSE IF role(actor) = WEREWOLF THEN werewolf_action(g, target_id, actor, hh)
       ELSE IF role(actor) = ESCORT THEN escort_action(g, target_id)
       ELSE IF role(actor) = CLAIRVOYANT THEN clairvoyant_action(g, target_id)
       ELSE IF role(actor) = MEDIUM THEN medium_action(g, target_id)
       ELSE Raise(g, "ValueError")

\* The loop of case DAY_ACCUSING left out: the votes against the killed
\* player stay.
purge_accusations_skipped(E, st, player, hh, i) == E

\* Game.kill_player, the loop of case DAY_ACCUSING over the roster from its
\* i-th member on: the accusation map it leaves.
RECURSIVE purge_accusations(_, _, _, _, _)
purge_accusations(E, st, player, hh, i) ==
    IF i > Len(populate_players) THEN E
    ELSE LET voter == populate_players[i].id
             found == IF voter \in Players THEN Lookup(E, st, voter, hh) ELSE {}
         IN IF found # {} /\ (\A e \in found : e.v = player)
            THEN purge_accusations(E \ found, st, player, hh, i + 1)
            ELSE purge_accusations(E, st, player, hh, i + 1)

\* Game.kill_player, its last statement left out: the player dies and the
\* victory conditions are not looked at.
kill_finish_unchecked(g, player) == Return([g EXCEPT !.status[player] = DEAD], None)

\* Game.kill_player, its last two statements
kill_finish(g, player) ==
    Return(check_victory_conditions([g EXCEPT !.status[player] = DEAD]), None)

\* Game.kill_player, case DAY_ACCUSING
kill_accusing(g, player, hh) ==
    LET own == Lookup(g.accusing_votes, g.status, player, hh)
    IN kill_finish([g EXCEPT !.accusing_votes =
                                 purge_accusations(g.accusing_votes \ own, g.status,
                                                   player, hh, 1)],
                   player)

\* Game.kill_player, case DAY_BALLOT, without the move to NIGHT when the
\* accused is killed.
kill_ballot_stays(g, player, hh) ==
    IF player = g.current_accusation
    THEN kill_finish([g EXCEPT !.current_accusation = None], player)
    ELSE LET found == Lookup(g.ballot_votes, g.status, player, hh)
         IN IF found # {}
            THEN kill_finish([g EXCEPT !.ballot_votes = g.ballot_votes \ found], player)
            ELSE Raise(g, "KeyError")

\* Game.kill_player, case DAY_BALLOT
kill_ballot(g, player, hh) ==
    IF player = g.current_accusation
    THEN kill_finish([g EXCEPT !.current_accusation = None, !.phase = NIGHT], player)
    ELSE LET found == Lookup(g.ballot_votes, g.status, player, hh)
         IN IF found # {}
            THEN kill_finish([g EXCEPT !.ballot_votes = g.ballot_votes \ found], player)
            ELSE Raise(g, "KeyError")

\* Game.kill_player, case NIGHT, that forgets that the player it kills is
\* the protected one.
kill_night_keeps_protection(g, player, hh) ==
    LET own == LookupIdx(g.wolves_votes, g.status, player, hh)
        d1 == IF role(player) = WEREWOLF /\ own # 0
              THEN DictDel(g.wolves_votes, own)
              ELSE g.wolves_votes
        found(i) == LookupIdx(d1, g.status, d1[i].k, hh)
        stops == {i \in DOMAIN d1 : found(i) = 0 \/ d1[found(i)].v = player}
    IN IF stops = {}
       THEN kill_finish([g EXCEPT !.wolves_votes = d1], player)
       ELSE LET j == found(MinOf(stops))
            IN IF j = 0
               THEN Raise([g EXCEPT !.wolves_votes = d1], "KeyError")
               ELSE Raise([g EXCEPT !.wolves_votes = DictDel(d1, j)], "RuntimeError")

\* Game.kill_player, case NIGHT.  The loop runs over the keys of the map in
\* insertion order and stops at the first key whose lookup fails (KeyError)
\* or whose vote names the player: that vote is deleted and the iterator
\* then finds the map resized (RuntimeError).
kill_night(g, player, hh) ==
    LET own == LookupIdx(g.wolves_votes, g.status, player, hh)
        d1 == IF role(player) = WEREWOLF /\ own # 0
              THEN DictDel(g.wolves_votes, own)
              ELSE g.wolves_votes
        found(i) == LookupIdx(d1, g.status, d1[i].k, hh)
        stops == {i \in DOMAIN d1 : found(i) = 0 \/ d1[found(i)].v = player}
    IN IF stops = {}
       THEN kill_finish([g EXCEPT !.wolves_votes = d1,
                                  !.protected_player =
                                      IF player = g.protected_player THEN None
                                      ELSE g.protected_player],
                        player)
       ELSE LET j == found(MinOf(stops))
            IN IF j = 0
               THEN Raise([g EXCEPT !.wolves_votes = d1], "KeyError")
               ELSE Raise([g EXCEPT !.wolves_votes = DictDel(d1, j)], "RuntimeError")

\* Game.kill_player without the test that the player is alive.
kill_player_again(g, player_id, hh) ==
    LET player == get_player_from_id(player_id)
    IN IF player # None
       THEN IF g.phase = DAY_ACCUSING THEN kill_accusing(g, player, hh)
            ELSE IF g.phase = DAY_BALLOT THEN kill_ballot(g, player, hh)
            ELSE IF g.phase = NIGHT THEN kill_night(g, player, hh)
            ELSE kill_finish(g, player)
       ELSE Return(g, None)

\* Game.kill_player, under the lookup outcomes hh
kill_player(g, player_id, hh) ==
    LET player == get_player_from_id(player_id)
    IN IF player # None /\ is_alive(g.status, player)
       THEN IF g.phase = DAY_ACCUSING THEN kill_accusing(g, player, hh)
            ELSE IF g.phase = DAY_BALLOT THEN kill_ballot(g, player, hh)
            ELSE IF g.phase = NIGHT THEN kill_night(g, player, hh)
            ELSE kill_finish(g, player)
       ELSE Return(g, None)

\* Game.players: list.copy() copies the list, not the Player objects in it,
\* so the roster handed out is the references to the players of the match.
players_copy(g) == DOMAIN g.status

\* The Player object a reference leads to, read while the match is g.
player_at(ref, g) == [id |-> ref, role |-> role(ref), status |-> g.status[ref]]

\* get_status: the snapshot of the match g, an independent copy of its
\* players, of the state of its rules and of its phase.
get_status(g) ==
    [ players |-> [p \in DOMAIN g.status |-> player_at(p, g)],
      game_info |-> [ accusing_votes |-> g.accusing_votes,
                      ballot_votes |-> g.ballot_votes,
                      wolves_votes |-> g.wolves_votes,
                      protected_player |-> g.protected_player ],
      phase |-> g.phase ]

\* from_status that makes its players anew, as Player(id, role) does.
from_status_new_players(snapshot) ==
    [ phase |-> snapshot.phase,
      status |-> [p \in DOMAIN snapshot.players |-> ALIVE],
      accusing_votes |-> snapshot.game_info.accusing_votes,
      current_accusation |-> None,
      protected_player |-> snapshot.game_info.protected_player,
      wolves_votes |-> snapshot.game_info.wolves_votes,
      ballot_votes |-> snapshot.game_info.ballot_votes,
      ret |-> None ]

\* from_status: the match reconstructed from a snapshot; the pending
\* accusation is no part of a snapshot.
from_status(snapshot) ==
    [ phase |-> snapshot.phase,
      status |-> [p \in DOMAIN snapshot.players |-> snapshot.players[p].status],
      accusing_votes |-> snapshot.game_info.accusing_votes,
      current_accusation |-> None,
      protected_player |-> snapshot.game_info.protected_player,
      wolves_votes |-> snapshot.game_info.wolves_votes,
      ballot_votes |-> snapshot.game_info.ballot_votes,
      ret |-> None ]

(***************************************************************************)
(* The match as a state machine: one action per public method.             *)
(***************************************************************************)
NewGame(players) ==
    /\ phase = DAY_DISCUSSION
    /\ status = [p \in players |-> ALIVE]
    /\ accusing_votes = {}
    /\ current_accusation = None
    /\ protected_player = None
    /\ wolves_votes = << >>
    /\ ballot_votes = {}
    /\ probe = [p \in players |-> "?"]

\* Game takes no rule chain.
Init == NewGame(EscortRoster) /\ rules = None

\* The call leaves the Game g (the one value of the call, bound by the
\* action); the model follows it while the vote maps hold at most MaxVotes
\* entries.
Becomes(g) ==
    /\ VotesHeld(g) <= MaxVotes
    /\ phase' = g.phase
    /\ status' = g.status
    /\ accusing_votes' = g.accusing_votes
    /\ current_accusation' = g.current_accusation
    /\ protected_player' = g.protected_player
    /\ wolves_votes' = g.wolves_votes
    /\ ballot_votes' = g.ballot_votes
    /\ UNCHANGED rules

\* The entries Game.accuse_player looks its voter up in: none when the call
\* is rejected before the lookup.
AccuseMap == IF phase = DAY_ACCUSING THEN accusing_votes ELSE {}

\* The entries Game.ballot_vote looks its voter up in.
BallotMap == IF phase = DAY_BALLOT THEN ballot_votes ELSE {}

\* The entries Game.perform_night_action looks its actor up in: the werewolf
\* votes when it gets as far as __werewolf_action.
NightMap(actor_id) ==
    IF /\ phase = NIGHT
       /\ get_player_from_id(actor_id) # None
       /\ is_alive(status, actor_id)
       /\ role(actor_id) = WEREWOLF
    THEN Entries(wolves_votes)
    ELSE {}

\* The entries Game.kill_player looks keys up in when it kills player_id.
KillMap(player_id) ==
    IF get_player_from_id(player_id) = None \/ ~is_alive(status, player_id) THEN {}
    ELSE IF phase = DAY_ACCUSING THEN accusing_votes
    ELSE IF phase = DAY_BALLOT /\ player_id # current_accusation THEN ballot_votes
    ELSE IF phase = NIGHT THEN Entries(wolves_votes)
    ELSE {}

\* The keys it looks up there: the player's own, and in DAY_ACCUSING and
\* NIGHT those the loop visits.
KillKeys(player_id) ==
    IF phase = DAY_BALLOT THEN {player_id}
    ELSE IF phase = NIGHT
    THEN {e.k : e \in Entries(wolves_votes)}
         \cup {p \in {player_id} \cap Players : role(p) = WEREWOLF}
    ELSE Players

\* The lookup outcomes each call can meet in the current state.
AccuseProbes(voter_id) == ProbeChoices(AccuseMap, status, {voter_id})

BallotProbes(voter_id) == ProbeChoices(BallotMap, status, {voter_id})

NightProbes(actor_id) == ProbeChoices(NightMap(actor_id), status, {actor_id})

KillProbes(player_id) == ProbeChoices(KillMap(player_id), status, KillKeys(player_id))

AdvancePhase ==
    \E g \in {advance_phase(self)} :
        /\ Becomes(g)
        /\ probe' = Settle(probe, g)

AccusePlayer(voter_id, target_id) ==
    \E hh \in AccuseProbes(voter_id) :
        \E g \in {accuse_player(self, voter_id, target_id, hh)} :
            /\ Becomes(g)
            /\ probe' = Settle(hh, g)

BallotVote(voter_id, vote) ==
    \E hh \in BallotProbes(voter_id) :
        \E g \in {ballot_vote(self, voter_id, vote, hh)} :
            /\ Becomes(g)
            /\ probe' = Settle(hh, g)

PerformNightAction(actor_id, target_id) ==
    \E hh \in NightProbes(actor_id) :
        \E g \in {perform_night_action(self, actor_id, target_id, hh)} :
            /\ Becomes(g)
            /\ probe' = Settle(hh, g)

KillPlayer(player_id) ==
    \E hh \in KillProbes(player_id) :
        \E g \in {kill_player(self, player_id, hh)} :
            /\ Becomes(g)
            /\ probe' = Settle(hh, g)

\* The ids a vote or night action is called with: any id in the phase ph
\* that admits the call; in every other phase the call is rejected on the
\* phase before its arguments are read, and one id stands for all.
CallIds(ph) == IF phase = ph THEN Ids ELSE {UnknownId}

Next ==
    \/ AdvancePhase
    \/ \E voter_id \in CallIds(DAY_ACCUSING), target_id \in CallIds(DAY_ACCUSING) :
          AccusePlayer(voter_id, target_id)
    \/ \E voter_id \in CallIds(DAY_BALLOT), vote \in BOOLEAN : BallotVote(voter_id, vote)
    \/ \E actor_id \in CallIds(NIGHT), target_id \in CallIds(NIGHT) :
          PerformNightAction(actor_id, target_id)
    \/ \E player_id \in Ids : KillPlayer(player_id)

Spec == Init /\ [][Next]_vars

\* The same match played by the roster of the clairvoyant and the medium.
SeerInit == NewGame(SeerRoster) /\ rules = None

SeerSpec == SeerInit /\ [][Next]_vars

(***************************************************************************)
(* The rule chain of game_modifiers.py: a MinimalGameInfo wrapped in       *)
(* decorators.  A chain is the sequence of its decorators from the         *)
(* innermost to the outermost, each class once; the fields of all its      *)
(* objects make one record, to which the statuses of the players are       *)
(* added since the escort's decorator writes them.                         *)
(***************************************************************************)
ClairvoyantGameInfoDecorator == "ClairvoyantGameInfoDecorator"
EscortGameInfoDecorator == "EscortGameInfoDecorator"
MediumGameInfoDecorator == "MediumGameInfoDecorator"

Decorators ==
    {ClairvoyantGameInfoDecorator, EscortGameInfoDecorator, MediumGameInfoDecorator}

\* BasicGameInfoFactory.build
BasicGameInfoFactory_build ==
    << ClairvoyantGameInfoDecorator, EscortGameInfoDecorator, MediumGameInfoDecorator >>

\* The chains over the decorators D, each wrapped once, in every order.
ChainsOf(D) ==
    {c \in [1..Cardinality(D) -> D] : \A i, j \in DOMAIN c : c[i] = c[j] => i = j}

\* Is chain c wrapped in the order in which BasicGameInfoFactory.build wraps?
FactoryOrder(c) ==
    \A i, j \in DOMAIN c :
        i < j => \E m, n \in DOMAIN BasicGameInfoFactory_build :
                    /\ m < n
                    /\ BasicGameInfoFactory_build[m] = c[i]
                    /\ BasicGameInfoFactory_build[n] = c[j]

\* The chains a match is started on: the chain of the factory, and the ones
\* that lack some of its decorators.
Chains == {c \in UNION {ChainsOf(D) : D \in SUBSET Decorators} : FactoryOrder(c)}

\* MinimalGameInfo.__init__ and the __init__ of the decorators of chain
NewRules(chain) ==
    [ chain |-> chain,
      accusation_votes |-> {},
      ballot_votes |-> {},
      werewolves_votes |-> {},
      clairvoyant_acted |-> FALSE,
      escort_acted |-> FALSE,
      protected_player |-> None,
      medium_acted |-> FALSE ]

\* The rule chain as it stands with the players it is called on, no call
\* made on it yet.
info ==
    [ chain |-> rules.chain,
      accusation_votes |-> rules.accusation_votes,
      ballot_votes |-> rules.ballot_votes,
      werewolves_votes |-> rules.werewolves_votes,
      clairvoyant_acted |-> rules.clairvoyant_acted,
      escort_acted |-> rules.escort_acted,
      protected_player |-> rules.protected_player,
      medium_acted |-> rules.medium_acted,
      status |-> status,
      ret |-> None ]

\* A rule chain as an object: the oid-th object built, wrapping chain.
game_info(oid, chain) == [oid |-> oid, chain |-> chain]

\* a == b for two rule chains: no class of game_modifiers.py defines __eq__,
\* so the comparison is the one of object, which is identity.
game_info_eq(a, b) == a.oid = b.oid

\* Role.is_evil
is_evil(p) == role(p) = WEREWOLF

\* The role a decorator handles.
HandledRole(decorator) ==
    IF decorator = ClairvoyantGameInfoDecorator THEN CLAIRVOYANT
    ELSE IF decorator = EscortGameInfoDecorator THEN ESCORT
    ELSE MEDIUM

\* get_handled_roles of the chain: the list of MinimalGameInfo, to which
\* each decorator appends its role.
get_handled_roles(chain) ==
    << VILLAGER, WEREWOLF >> \o [i \in DOMAIN chain |-> HandledRole(chain[i])]

\* MinimalGameInfo.handle_accusation_vote, which every decorator passes on
handle_accusation_vote(r, accuser, accused, hh) ==
    IF ~is_alive(r.status, accuser) THEN Raise(r, "ValueError")
    ELSE IF ~is_alive(r.status, accused) THEN Raise(r, "ValueError")
    ELSE IF Lookup(r.accusation_votes, r.status, accuser, hh) # {} THEN Raise(r, "ValueError")
    ELSE Return([r EXCEPT !.accusation_votes =
                              DictAdd(r.accusation_votes, r.status, accuser, accused)],
                None)

\* MinimalGameInfo.handle_ballot_vote, which every decorator passes on
handle_ballot_vote(r, voter, vote, hh) ==
    IF ~is_alive(r.status, voter) THEN Raise(r, "ValueError")
    ELSE IF Lookup(r.ballot_votes, r.status, voter, hh) # {} THEN Raise(r, "ValueError")
    ELSE Return([r EXCEPT !.ballot_votes = DictAdd(r.ballot_votes, r.status, voter, vote)],
                None)

\* MinimalGameInfo._handle_night_actions
minimal_handle_night_actions(r, actor, target, hh) ==
    IF role(actor) = WEREWOLF
    THEN IF ~is_alive(r.status, actor) THEN Raise(r, "ValueError")
         ELSE IF Lookup(r.werewolves_votes, r.status, actor, hh) # {}
         THEN Raise(r, "ValueError")
         ELSE IF role(target) = WEREWOLF THEN Raise(r, "ValueError")
         ELSE IF ~is_alive(r.status, target) THEN Raise(r, "ValueError")
         ELSE Return([r EXCEPT !.werewolves_votes =
                                   DictAdd(r.werewolves_votes, r.status, actor, target)],
                     None)
    ELSE Return(r, None)

\* ClairvoyantGameInfoDecorator._handle_night_actions, for its own role
clairvoyant_handle_night_actions(r, actor, target) ==
    IF ~is_alive(r.status, actor) THEN Raise(r, "ValueError")
    ELSE IF r.clairvoyant_acted THEN Raise(r, "ValueError")
    ELSE IF ~is_alive(r.status, target) THEN Raise(r, "ValueError")
    ELSE Return([r EXCEPT !.clairvoyant_acted = TRUE], PyBool(is_evil(target)))

\* EscortGameInfoDecorator._handle_night_actions, for its own role
escort_handle_night_actions(r, actor, target) ==
    IF ~is_alive(r.status, actor) THEN Raise(r, "ValueError")
    ELSE IF r.escort_acted THEN Raise(r, "ValueError")
    ELSE IF ~is_alive(r.status, target) THEN Raise(r, "ValueError")
    ELSE Return([r EXCEPT !.escort_acted = TRUE,
                          !.status[target] = PROTECTED,
                          !.protected_player = target],
                None)

\* MediumGameInfoDecorator._handle_night_actions, for its own role
medium_handle_night_actions(r, actor, target) ==
    IF ~is_alive(r.status, actor) THEN Raise(r, "ValueError")
    ELSE IF r.medium_acted THEN Raise(r, "ValueError")
    ELSE IF is_alive(r.status, target) THEN Raise(r, "ValueError")
    ELSE Return([r EXCEPT !.medium_acted = TRUE], PyBool(is_evil(target)))

\* _handle_night_actions where a decorator passes the roles of the others
\* straight to the MinimalGameInfo instead of to the object it wraps.
wrapped_handle_night_actions_past_the_wrapped(r, i, actor, target, hh) ==
    IF i = 0 \/ role(actor) # HandledRole(r.chain[i])
    THEN minimal_handle_night_actions(r, actor, target, hh)
    ELSE IF r.chain[i] = ClairvoyantGameInfoDecorator
    THEN clairvoyant_handle_night_actions(r, actor, target)
    ELSE IF r.chain[i] = EscortGameInfoDecorator
    THEN escort_handle_night_actions(r, actor, target)
    ELSE medium_handle_night_actions(r, actor, target)

\* _handle_night_actions of the i-th object of the chain, the 0-th being
\* the MinimalGameInfo: a decorator handles its role and passes the others
\* on to the object it wraps.
RECURSIVE wrapped_handle_night_actions(_, _, _, _, _)
wrapped_handle_night_actions(r, i, actor, target, hh) ==
    IF i = 0 THEN minimal_handle_night_actions(r, actor, target, hh)
    ELSE IF role(actor) # HandledRole(r.chain[i])
    THEN wrapped_handle_night_actions(r, i - 1, actor, target, hh)
    ELSE IF r.chain[i] = ClairvoyantGameInfoDecorator
    THEN clairvoyant_handle_night_actions(r, actor, target)
    ELSE IF r.chain[i] = EscortGameInfoDecorator
    THEN escort_handle_night_actions(r, actor, target)
    ELSE medium_handle_night_actions(r, actor, target)

\* handle_night_actions that passes every role on to the chain.
handle_night_actions_any_role(r, actor, target, hh) ==
    wrapped_handle_night_actions(r, Len(r.chain), actor, target, hh)

\* AbstractGameInfo.handle_night_actions, called on the outermost object
handle_night_actions(r, actor, target, hh) ==
    IF \A i \in DOMAIN get_handled_roles(r.chain) : get_handled_roles(r.chain)[i] # role(actor)
    THEN Raise(r, "ValueError")
    ELSE wrapped_handle_night_actions(r, Len(r.chain), actor, target, hh)

\* reset_actions of the i-th object of the chain: what it wraps is reset
\* first, then its own fields.
RECURSIVE wrapped_reset_actions(_, _)
wrapped_reset_actions(r, i) ==
    IF i = 0
    THEN [r EXCEPT !.accusation_votes = {}, !.ballot_votes = {}, !.werewolves_votes = {}]
    ELSE LET w == wrapped_reset_actions(r, i - 1)
         IN IF r.chain[i] = ClairvoyantGameInfoDecorator
            THEN [w EXCEPT !.clairvoyant_acted = FALSE]
            ELSE IF r.chain[i] = MediumGameInfoDecorator
            THEN [w EXCEPT !.medium_acted = FALSE]
            ELSE IF w.protected_player # None
            THEN [w EXCEPT !.escort_acted = FALSE,
                           !.status[w.protected_player] = ALIVE,
                           !.protected_player = None]
            ELSE [w EXCEPT !.escort_acted = FALSE]

\* reset_actions, called on the outermost object
reset_actions(r) == Return(wrapped_reset_actions(r, Len(r.chain)), None)

\* MinimalGameInfo.end_game_conditions, which every decorator passes on
end_game_conditions(st) ==
    LET werewolves_alive == \E p \in DOMAIN st : is_evil(p) /\ is_alive(st, p)
        villagers_alive == \E p \in DOMAIN st : ~is_evil(p) /\ is_alive(st, p)
    IN IF ~werewolves_alive THEN VILLAGERS_VICTORY
       ELSE IF ~villagers_alive THEN WEREWOLVES_VICTORY
       ELSE None

\* Player.status set to DEAD by the owner of the players.
set_dead(r, player) == Return([r EXCEPT !.status[player] = DEAD], None)

(***************************************************************************)
(* The rule chain as a state machine: one action per method, and the       *)
(* death of a player.                                                      *)
(***************************************************************************)
NewChain(chain) == NewGame(RulesRoster) /\ rules = NewRules(chain)

RulesInit == \E chain \in Chains : NewChain(chain)

\* Does one of the vote maps of r hold an entry stored under an earlier hash
\* of player p?
RulesHoldStale(r, p) ==
    \/ Stale(r.accusation_votes, r.status, p) # {}
    \/ Stale(r.ballot_votes, r.status, p) # {}
    \/ Stale(r.werewolves_votes, r.status, p) # {}

\* The lookup outcomes that stay observed after a call made under the
\* outcomes hh that left the chain r.
RulesSettle(hh, r) ==
    IF hh = NoProbe THEN NoProbe
    ELSE [p \in Players |-> IF RulesHoldStale(r, p) THEN hh[p] ELSE "?"]

\* The call leaves the chain r (the one value of the call, bound by the
\* action); the model follows it while the vote maps hold at most
\* MaxRulesVotes entries.
RulesBecome(r) ==
    /\ Cardinality(r.accusation_votes) + Cardinality(r.ballot_votes)
           + Cardinality(r.werewolves_votes) <= MaxRulesVotes
    /\ status' = r.status
    /\ rules' = [ chain |-> r.chain,
                  accusation_votes |-> r.accusation_votes,
                  ballot_votes |-> r.ballot_votes,
                  werewolves_votes |-> r.werewolves_votes,
                  clairvoyant_acted |-> r.clairvoyant_acted,
                  escort_acted |-> r.escort_acted,
                  protected_player |-> r.protected_player,
                  medium_acted |-> r.medium_acted ]
    /\ UNCHANGED << phase, accusing_votes, current_accusation, protected_player,
                    wolves_votes, ballot_votes >>

\* The lookup outcomes each call on the chain can meet in the current state.
AccusationProbes(accuser) == ProbeChoices(rules.accusation_votes, status, {accuser})

BallotVoteProbes(voter) == ProbeChoices(rules.ballot_votes, status, {voter})

NightActionProbes(actor) ==
    ProbeChoices(IF role(actor) = WEREWOLF THEN rules.werewolves_votes ELSE {},
                 status, {actor})

HandleAccusationVote(accuser, accused) ==
    \E hh \in AccusationProbes(accuser) :
        \E r \in {handle_accusation_vote(info, accuser, accused, hh)} :
            /\ RulesBecome(r)
            /\ probe' = RulesSettle(hh, r)

HandleBallotVote(voter, vote) ==
    \E hh \in BallotVoteProbes(voter) :
        \E r \in {handle_ballot_vote(info, voter, vote, hh)} :
            /\ RulesBecome(r)
            /\ probe' = RulesSettle(hh, r)

HandleNightActions(actor, target) ==
    \E hh \in NightActionProbes(actor) :
        \E r \in {handle_night_actions(info, actor, target, hh)} :
            /\ RulesBecome(r)
            /\ probe' = RulesSettle(hh, r)

ResetActions ==
    \E r \in {reset_actions(info)} :
        /\ RulesBecome(r)
        /\ probe' = RulesSettle(probe, r)

SetDead(player) ==
    \E r \in {set_dead(info, player)} :
        /\ RulesBecome(r)
        /\ probe' = RulesSettle(probe, r)

RulesNext ==
    \/ \E accuser \in Players, accused \in Players : HandleAccusationVote(accuser, accused)
    \/ \E voter \in Players, vote \in BOOLEAN : HandleBallotVote(voter, vote)
    \/ \E actor \in Players, target \in Players : HandleNightActions(actor, target)
    \/ ResetActions
    \/ \E player \in Players : SetDead(player)

RulesSpec == RulesInit /\ [][RulesNext]_vars

(***************************************************************************)
(* The two programs side by side: a run is a match played through Game or  *)
(* a rule chain driven by its owner, told apart by their rosters.          *)
(***************************************************************************)
EitherInit == Init \/ RulesInit

EitherNext ==
    \/ Players = EscortRoster /\ Next
    \/ Players = RulesRoster /\ RulesNext

EitherSpec == EitherInit /\ [][EitherNext]_vars

(***************************************************************************)
(* What the specification of the match says, in its own terms.             *)
(***************************************************************************)
\* Number of votes of the map E (a set of entries) that name player p.
VotesFor(E, p) == Cardinality({e \in E : e.v = p})

\* p has strictly more votes in E than every other player.
StrictLeader(E, p) ==
    /\ VotesFor(E, p) > 0
    /\ \A q \in Players \ {p} : VotesFor(E, q) < VotesFor(E, p)

\* A victory condition holds for the statuses st: every werewolf is dead,
\* or everybody of the village is.
VictoryCondition(st) ==
    \/ \A p \in Players : role(p) = WEREWOLF => st[p] = DEAD
    \/ \A p \in Players : role(p) # WEREWOLF => st[p] = DEAD

\* C1: once the phase is VILLAGERS_VICTORY or WEREWOLVES_VICTORY, no call of
\* advance_phase, kill_player, accuse_player, ballot_vote or
\* perform_night_action changes it again.
C1_VictoryAbsorbing == [][(phase \in VictoryPhases) => (phase' = phase)]_vars

\* C1, its case: the werewolves have won and the match went on receiving
\* calls, which killed every werewolf (and everybody else) without the
\* victory changing hands.
C1_Witness ==
    /\ phase = WEREWOLVES_VICTORY
    /\ \A p \in Players : status[p] = DEAD

\* C2: advance_phase in DAY_BALLOT with a pending accusation executes the
\* accused if and only if the confirming ballots are strictly more than half
\* of the ballots cast; the pending accusation is cleared and the phase
\* becomes NIGHT or a victory phase.
C2_StrictMajority ==
    (phase = DAY_BALLOT /\ current_accusation # None) =>
        LET g == advance_phase(self)
            cast == Cardinality(ballot_votes)
            confirm == Cardinality({e \in ballot_votes : e.v})
        IN /\ g.status[current_accusation] = DEAD <=> 2 * confirm > cast
           /\ g.current_accusation = None
           /\ g.phase \in {NIGHT} \cup VictoryPhases

\* C3: advance_phase in DAY_ACCUSING moves to DAY_BALLOT with the pending
\* accusation set to p exactly when p has strictly more accusation votes
\* than every other player; with no vote or a tie for the maximum it moves
\* to NIGHT and the pending accusation stays unset.
C3_AccusationPlurality ==
    phase = DAY_ACCUSING =>
        LET g == advance_phase(self)
        IN /\ \A p \in Players :
                (g.phase = DAY_BALLOT /\ g.current_accusation = p)
                    <=> StrictLeader(accusing_votes, p)
           /\ (\A p \in Players : ~StrictLeader(accusing_votes, p)) =>
                (g.phase = NIGHT /\ g.current_accusation = None)

\* C3, its case: the accusations went two to one against Bob, and the
\* advance opened the ballot on Bob.
C3_Witness ==
    /\ phase = DAY_BALLOT
    /\ current_accusation = "Bob"
    /\ VotesFor(accusing_votes, "Bob") = 2
    /\ \E q \in Players \ {"Bob"} : VotesFor(accusing_votes, q) = 1

\* C4: advance_phase in NIGHT kills p exactly when p is the single strict
\* maximum of the werewolf votes and p is not PROTECTED; on a tie, on no
\* vote and on a PROTECTED leader nobody dies; afterwards the phase is
\* DAY_DISCUSSION unless a victory condition holds.
C4_NightKill ==
    phase = NIGHT =>
        LET g == advance_phase(self)
        IN /\ \A p \in Players :
                g.status[p] = DEAD
                    <=> \/ status[p] = DEAD
                        \/ StrictLeader(Entries(wolves_votes), p) /\ status[p] # PROTECTED
           /\ IF VictoryCondition(g.status)
              THEN g.phase \in VictoryPhases
              ELSE g.phase = DAY_DISCUSSION

\* C4, its case: a night in which both werewolves vote for the player the
\* escort protects, which the advance ends with that player alive.
C4_Witness ==
    /\ phase = NIGHT
    /\ \E p \in Players :
          /\ VotesFor(Entries(wolves_votes), p) = 2
          /\ status[p] = PROTECTED
          /\ advance_phase(self).status[p] = ALIVE
          /\ advance_phase(self).phase = DAY_DISCUSSION

\* The votes of the map E (a set of entries) cast by player p.
VotesBy(E, p) == {e \in E : e.k = p}

\* C5: a second accuse_player by a living voter in a DAY_ACCUSING round, and
\* a second ballot_vote by a living voter in a DAY_BALLOT round, fail with an
\* error and leave the voter's first vote as it was.
C5_SecondVoteRejected ==
    \A voter \in Players :
        /\ (/\ phase = DAY_ACCUSING
            /\ is_alive(status, voter)
            /\ VotesBy(accusing_votes, voter) # {}) =>
               \A target_id \in Ids, hh \in AccuseProbes(voter) :
                   LET g == accuse_player(self, voter, target_id, hh)
                   IN Raised(g) /\ g.accusing_votes = accusing_votes
        /\ (/\ phase = DAY_BALLOT
            /\ is_alive(status, voter)
            /\ VotesBy(ballot_votes, voter) # {}) =>
               \A vote \in BOOLEAN, hh \in BallotProbes(voter) :
                   LET g == ballot_vote(self, voter, vote, hh)
                   IN Raised(g) /\ g.ballot_votes = ballot_votes

\* C5, its case: a ballot in which a living voter has confirmed, and whose
\* attempt to reject afterwards is turned down.
C5_Witness ==
    /\ phase = DAY_BALLOT
    /\ \E voter \in Players :
          /\ is_alive(status, voter)
          /\ \E e \in VotesBy(ballot_votes, voter) : e.v
          /\ ballot_vote(self, voter, FALSE, probe).ret = "ValueError"

\* C6: a second perform_night_action by a living werewolf within one night
\* fails with an error, and whatever the night operations were (the escort
\* protecting that werewolf included) the werewolf vote map holds exactly
\* one vote by a werewolf that has voted.
C6_SecondWolfVoteRejected ==
    \A werewolf \in Players :
        (/\ phase = NIGHT
         /\ role(werewolf) = WEREWOLF
         /\ is_alive(status, werewolf)
         /\ VotesBy(Entries(wolves_votes), werewolf) # {}) =>
            /\ Cardinality({i \in DOMAIN wolves_votes : wolves_votes[i].k = werewolf}) = 1
            /\ \A target_id \in Ids, hh \in NightProbes(werewolf) :
                   LET g == perform_night_action(self, werewolf, target_id, hh)
                   IN Raised(g) /\ g.wolves_votes = wolves_votes

\* C7: kill_player with an id of no roster member, or of a player already
\* DEAD, raises nothing and changes nothing: the Game it leaves is the Game
\* it was called on, field by field.
C7_KillNoOp ==
    \A player_id \in Ids :
        (get_player_from_id(player_id) = None \/ status[player_id] = DEAD) =>
            \A hh \in KillProbes(player_id) : kill_player(self, player_id, hh) = self

\* C7, its case: a ballot is open, a voter who is no longer alive has no
\* ballot in it, and kill_player is called on that dead player.
C7_Witness ==
    /\ phase = DAY_BALLOT
    /\ ballot_votes # {}
    /\ \E p \in Players :
          /\ status[p] = DEAD
          /\ VotesBy(ballot_votes, p) = {}
          /\ kill_player(self, p, probe) = self

\* C8: kill_player with the id of a living roster member (ALIVE or
\* PROTECTED) completes without raising in every phase and vote state, and
\* leaves that player DEAD.
C8_KillNeverRaises ==
    \A player \in Players :
        is_alive(status, player) =>
            \A hh \in KillProbes(player) :
                LET g == kill_player(self, player, hh)
                IN ~Raised(g) /\ g.status[player] = DEAD

\* C9: kill_player on the pending accusee during DAY_BALLOT clears the
\* pending accusation and sets that player, and nobody else, to DEAD
\* whatever the ballots cast say; the phase is left at NIGHT, or at a
\* victory phase if the death satisfies a victory condition.
C9_KillAccusee ==
    (phase = DAY_BALLOT /\ current_accusation # None) =>
        \A hh \in KillProbes(current_accusation) :
            LET g == kill_player(self, current_accusation, hh)
            IN /\ ~Raised(g)
               /\ g.current_accusation = None
               /\ g.status = [status EXCEPT ![current_accusation] = DEAD]
               /\ IF VictoryCondition(g.status)
                  THEN g.phase \in VictoryPhases
                  ELSE g.phase = NIGHT

\* C9, its case: the night that follows a ballot whose only ballots reject
\* the accusation, and in which the accused is nevertheless the one dead
\* player: kill_player, not the tally, ended that ballot.
C9_Witness ==
    /\ phase = NIGHT
    /\ current_accusation = None
    /\ wolves_votes = << >>
    /\ ballot_votes # {}
    /\ \A e \in ballot_votes : ~e.v
    /\ \E p \in Players :
          /\ StrictLeader(accusing_votes, p)
          /\ status[p] = DEAD
          /\ \A q \in Players \ {p} : status[q] = ALIVE

\* C10: kill_player(p) during DAY_ACCUSING removes p's own accusation and
\* every accusation against p and leaves the others as they were; a living
\* voter whose accusation went that way can accuse once more in the round,
\* and once only.
C10_KillPurgesAccusations ==
    \A p \in Players :
        (phase = DAY_ACCUSING /\ is_alive(status, p)) =>
            \A hh \in KillProbes(p) :
                LET g == kill_player(self, p, hh)
                IN /\ g.accusing_votes = {e \in accusing_votes : e.k # p /\ e.v # p}
                   /\ \A voter \in Players \ {p}, target \in Players :
                         (/\ \E e \in VotesBy(accusing_votes, voter) : e.v = p
                          /\ is_alive(g.status, voter)
                          /\ is_alive(g.status, target)
                          /\ g.phase = DAY_ACCUSING) =>
                             LET g2 == accuse_player(g, voter, target, hh)
                             IN /\ ~Raised(g2)
                                /\ VotesBy(g2.accusing_votes, voter) =
                                       {[k |-> voter, h |-> g.status[voter], v |-> target]}
                                /\ \A third \in Ids :
                                       LET g3 == accuse_player(g2, voter, third, hh)
                                       IN Raised(g3) /\ g3.accusing_votes = g2.accusing_votes

\* C10, its case: a round of accusations in which a living voter accuses a
\* player that kill_player then removes while the round goes on, another
\* accusation standing.
C10_Witness ==
    /\ phase = DAY_ACCUSING
    /\ \E p \in Players, voter \in Players :
          /\ voter # p
          /\ is_alive(status, p)
          /\ is_alive(status, voter)
          /\ \E e \in VotesBy(accusing_votes, voter) : e.v = p
          /\ \E e \in accusing_votes : e.k # p /\ e.v # p
          /\ kill_player(self, p, probe).phase = DAY_ACCUSING

\* C11: kill_player(p) during NIGHT removes the werewolf vote cast by p and
\* every werewolf vote against p, empties the protected-player slot if p
\* held it, leaves the other werewolf votes as they were and sets p to
\* DEAD, whatever the votes of the night and whether or not p is PROTECTED.
C11_KillPurgesNight ==
    \A p \in Players :
        (phase = NIGHT /\ is_alive(status, p)) =>
            \A hh \in KillProbes(p) :
                LET g == kill_player(self, p, hh)
                IN /\ Entries(g.wolves_votes) =
                          {e \in Entries(wolves_votes) : e.k # p /\ e.v # p}
                   /\ g.protected_player =
                          (IF protected_player = p THEN None ELSE protected_player)
                   /\ g.status[p] = DEAD

\* C12: perform_night_action fails with an error whenever the phase is not
\* NIGHT, accuse_player whenever it is not DAY_ACCUSING and ballot_vote
\* whenever it is not DAY_BALLOT, the two victory phases included, whatever
\* the arguments; the Game is left as it was.
C12_WrongPhaseRejected ==
    /\ phase # NIGHT =>
          \A actor_id \in Ids : \A hh \in NightProbes(actor_id) : \A target_id \in Ids :
              LET g == perform_night_action(self, actor_id, target_id, hh)
              IN Raised(g) /\ g = Raise(self, g.ret)
    /\ phase # DAY_ACCUSING =>
          \A voter_id \in Ids : \A hh \in AccuseProbes(voter_id) : \A target_id \in Ids :
              LET g == accuse_player(self, voter_id, target_id, hh)
              IN Raised(g) /\ g = Raise(self, g.ret)
    /\ phase # DAY_BALLOT =>
          \A voter_id \in Ids : \A hh \in BallotProbes(voter_id) : \A vote \in BOOLEAN :
              LET g == ballot_vote(self, voter_id, vote, hh)
              IN Raised(g) /\ g = Raise(self, g.ret)

\* C12, its case: the werewolves have won with a living voter left, and a
\* vote of each kind by that voter is turned down.
C12_Witness ==
    /\ phase = WEREWOLVES_VICTORY
    /\ \E voter \in Players :
          /\ is_alive(status, voter)
          /\ accuse_player(self, voter, voter, probe).ret = "ValueError"
          /\ ballot_vote(self, voter, TRUE, probe).ret = "ValueError"
          /\ perform_night_action(self, voter, voter, probe).ret = "ValueError"

\* C13: whenever a call of accuse_player, ballot_vote, perform_night_action
\* or kill_player raises an error, the Game after the call is the Game
\* before it: phase, statuses, the three vote maps, the pending accusation
\* and the protected-player slot are unchanged.
C13_RaiseLeavesState ==
    /\ \A voter_id \in Ids, target_id \in Ids : \A hh \in AccuseProbes(voter_id) :
          LET g == accuse_player(self, voter_id, target_id, hh)
          IN Raised(g) => g = Raise(self, g.ret)
    /\ \A voter_id \in Ids, vote \in BOOLEAN : \A hh \in BallotProbes(voter_id) :
          LET g == ballot_vote(self, voter_id, vote, hh)
          IN Raised(g) => g = Raise(self, g.ret)
    /\ \A actor_id \in Ids, target_id \in Ids : \A hh \in NightProbes(actor_id) :
          LET g == perform_night_action(self, actor_id, target_id, hh)
          IN Raised(g) => g = Raise(self, g.ret)
    /\ \A player_id \in Ids : \A hh \in KillProbes(player_id) :
          LET g == kill_player(self, player_id, hh)
          IN Raised(g) => g = Raise(self, g.ret)

\* C14: accuse_player fails when the voter id or the target id is unknown
\* or the voter or the target is DEAD; ballot_vote fails when the voter id
\* is unknown or the voter is DEAD; perform_night_action fails when the
\* actor id is unknown, the actor is DEAD or the target id is unknown.  None
\* of these calls records a vote.
C14_InvalidPlayersRejected ==
    LET gone(player_id) == player_id \notin Players \/ status[player_id] = DEAD
    IN /\ \A voter_id \in Ids, target_id \in Ids : \A hh \in AccuseProbes(voter_id) :
             (gone(voter_id) \/ gone(target_id)) =>
                 LET g == accuse_player(self, voter_id, target_id, hh)
                 IN Raised(g) /\ g.accusing_votes = accusing_votes
       /\ \A voter_id \in Ids, vote \in BOOLEAN : \A hh \in BallotProbes(voter_id) :
             gone(voter_id) =>
                 LET g == ballot_vote(self, voter_id, vote, hh)
                 IN Raised(g) /\ g.ballot_votes = ballot_votes
       /\ \A actor_id \in Ids, target_id \in Ids : \A hh \in NightProbes(actor_id) :
             (gone(actor_id) \/ target_id \notin Players) =>
                 LET g == perform_night_action(self, actor_id, target_id, hh)
                 IN Raised(g) /\ g.wolves_votes = wolves_votes

\* C15: in every reachable state, if the phase is VILLAGERS_VICTORY every
\* werewolf is DEAD (none ALIVE or PROTECTED), and if the phase is
\* WEREWOLVES_VICTORY every non-werewolf is DEAD.
C15_VictoryMeansDead ==
    /\ phase = VILLAGERS_VICTORY =>
          \A p \in Players : role(p) = WEREWOLF => status[p] = DEAD
    /\ phase = WEREWOLVES_VICTORY =>
          \A p \in Players : role(p) # WEREWOLF => status[p] = DEAD

\* C16: after every advance_phase or kill_player call that returns, on
\* every path (the one of advance_phase with no accusation vote included),
\* if the phase it leaves is no victory phase then at least one werewolf
\* and at least one non-werewolf are not DEAD.
C16_NoMissedVictory ==
    LET both_sides_left(g) ==
            (~Raised(g) /\ g.phase \notin VictoryPhases) =>
                /\ \E p \in Players : role(p) = WEREWOLF /\ g.status[p] # DEAD
                /\ \E p \in Players : role(p) # WEREWOLF /\ g.status[p] # DEAD
    IN /\ both_sides_left(advance_phase(self))
       /\ \A player_id \in Ids : \A hh \in KillProbes(player_id) :
             both_sides_left(kill_player(self, player_id, hh))

\* C16, its case: a round of accusations that opens after a death, nobody
\* accuses, and the advance goes to NIGHT on the path that returns early.
C16_Witness ==
    /\ phase = DAY_ACCUSING
    /\ accusing_votes = {}
    /\ \E p \in Players : status[p] = DEAD
    /\ advance_phase(self).phase = NIGHT

\* C17: a player who is PROTECTED when advance_phase resolves the NIGHT is
\* not killed by the werewolf votes, however many, and is ALIVE after that
\* call; whenever the phase is DAY_DISCUSSION, DAY_ACCUSING or DAY_BALLOT no
\* player is PROTECTED.
C17_ProtectionLastsTheNight ==
    /\ phase = NIGHT =>
          \A p \in Players :
              status[p] = PROTECTED => advance_phase(self).status[p] = ALIVE
    /\ phase \in {DAY_DISCUSSION, DAY_ACCUSING, DAY_BALLOT} =>
          \A p \in Players : status[p] # PROTECTED

\* C17, its case: the escort shields the one player the werewolves voted
\* for, and the advance that resolves the night leaves that player ALIVE in
\* the discussion of the next day.
C17_Witness ==
    /\ phase = NIGHT
    /\ \E p \in Players :
          /\ status[p] = PROTECTED
          /\ Len(wolves_votes) = 1
          /\ wolves_votes[1].v = p
          /\ advance_phase(self).status[p] = ALIVE
          /\ advance_phase(self).phase = DAY_DISCUSSION

\* C18: a clairvoyant night action succeeds only on a target that is not
\* DEAD and a medium night action only on a target that is DEAD; a
\* successful call returns True exactly when the target is a WEREWOLF and
\* changes no status, no vote map and not the phase.
C18_SeersOnlyLook ==
    \A actor \in Players, target_id \in Ids :
        role(actor) \in {CLAIRVOYANT, MEDIUM} =>
            \A hh \in NightProbes(actor) :
                LET g == perform_night_action(self, actor, target_id, hh)
                IN ~Raised(g) =>
                      /\ target_id \in Players
                      /\ role(actor) = CLAIRVOYANT => status[target_id] # DEAD
                      /\ role(actor) = MEDIUM => status[target_id] = DEAD
                      /\ g.ret = PyBool(role(target_id) = WEREWOLF)
                      /\ g = Return(self, g.ret)

\* C18, its case: a night with a dead werewolf, in which the medium learns
\* that the dead player was a werewolf and the clairvoyant that the
\* medium is none.
C18_Witness ==
    /\ phase = NIGHT
    /\ status["Bob"] = DEAD
    /\ perform_night_action(self, "Eve", "Bob", probe).ret = "True"
    /\ perform_night_action(self, "Diana", "Eve", probe).ret = "False"

\* C19: within one night the clairvoyant, the medium and the escort each
\* complete at most one successful perform_night_action: once one of them
\* has acted, any further attempt of the same actor in that night fails
\* with an error, whatever happens in between (kill_player of the
\* protected player included).
C19_OneActionPerNight ==
    phase = NIGHT =>
        \A actor \in Players, first_id \in Ids, second_id \in Ids :
            role(actor) \in {CLAIRVOYANT, MEDIUM, ESCORT} =>
                LET g1 == perform_night_action(self, actor, first_id, probe)
                IN ~Raised(g1) =>
                      /\ Raised(perform_night_action(g1, actor, second_id, probe))
                      /\ \A player_id \in Ids :
                            LET g2 == kill_player(g1, player_id, probe)
                            IN (g2.phase = NIGHT /\ is_alive(g2.status, actor)) =>
                                  Raised(perform_night_action(g2, actor, second_id, probe))

\* The decorators chain c is made of.
Wrapped(c) == {c[i] : i \in DOMAIN c}

\* C20: handle_night_actions raises an error and leaves every vote map, every
\* flag and every status as it was whenever the role of the actor is not
\* among get_handled_roles() of the chain; the bare MinimalGameInfo rejects
\* an escort, a clairvoyant and a medium, and a chain that lacks a decorator
\* rejects the role of that decorator.
C20_UnhandledRoleRejected ==
    \A actor \in Players, target \in Players :
        \A hh \in NightActionProbes(actor) :
            LET r == handle_night_actions(info, actor, target, hh)
                handled == get_handled_roles(rules.chain)
            IN /\ (\A i \in DOMAIN handled : handled[i] # role(actor))
                      => r = Raise(info, "ValueError")
               /\ (rules.chain = << >> /\ role(actor) \in {ESCORT, CLAIRVOYANT, MEDIUM})
                      => r = Raise(info, "ValueError")
               /\ \A d \in Decorators \ Wrapped(rules.chain) :
                      role(actor) = HandledRole(d) => r = Raise(info, "ValueError")

\* A chain without the escort's decorator that holds a vote of the
\* werewolves and has seen its clairvoyant act, the escort alive.
C20_Witness ==
    /\ rules.chain = << ClairvoyantGameInfoDecorator, MediumGameInfoDecorator >>
    /\ rules.werewolves_votes # {}
    /\ rules.clairvoyant_acted
    /\ is_alive(status, "Charlie")

\* C21: the rule configuration of the match compares equal to every
\* configuration built after it that enables the same roles, whatever the
\* order in which its modules were added, and unequal to every configuration
\* that enables other roles.
C21_ConfigurationEquality ==
    \A D \in SUBSET Decorators : \A chain \in ChainsOf(D) :
        game_info_eq(game_info(1, rules.chain), game_info(2, chain))
            <=> Wrapped(rules.chain) = Wrapped(chain)

\* Chain r in the wrap order c.
Rewrapped(r, c) == [r EXCEPT !.chain = c]

\* C22: in every state a chain reaches, each call of handle_accusation_vote,
\* handle_ballot_vote, handle_night_actions and reset_actions gives, on the
\* same decorators wrapped in any other order, the same result or error, the
\* same vote maps, the same flags and the same statuses; the chains of the
\* different orders therefore stay equal along every sequence of calls.
C22_WrapOrderUnobservable ==
    \A c \in ChainsOf(Wrapped(rules.chain)) :
        /\ \A actor \in Players : \A hh \in NightActionProbes(actor) : \A target \in Players :
              handle_night_actions(Rewrapped(info, c), actor, target, hh)
                  = Rewrapped(handle_night_actions(info, actor, target, hh), c)
        /\ \A accuser \in Players : \A hh \in AccusationProbes(accuser) : \A accused \in Players :
              handle_accusation_vote(Rewrapped(info, c), accuser, accused, hh)
                  = Rewrapped(handle_accusation_vote(info, accuser, accused, hh), c)
        /\ \A voter \in Players : \A hh \in BallotVoteProbes(voter) : \A vote \in BOOLEAN :
              handle_ballot_vote(Rewrapped(info, c), voter, vote, hh)
                  = Rewrapped(handle_ballot_vote(info, voter, vote, hh), c)
        /\ reset_actions(Rewrapped(info, c)) = Rewrapped(reset_actions(info), c)

\* C22, its case: the three decorators are wrapped, the escort has protected
\* a player, a vote is held, and the clairvoyant, still to act, gets the same
\* answer from the chain wrapped the other way round.
C22_Witness ==
    /\ Wrapped(rules.chain) = Decorators
    /\ rules.escort_acted
    /\ rules.protected_player # None
    /\ rules.werewolves_votes # {}
    /\ ~rules.clairvoyant_acted
    /\ LET c == << MediumGameInfoDecorator, EscortGameInfoDecorator,
                   ClairvoyantGameInfoDecorator >>
           r == handle_night_actions(Rewrapped(info, c), "Diana", "Bob", probe)
       IN r.ret = "True" /\ r.clairvoyant_acted

\* The orders in which the votes E can have been cast.
Orders(E) == {o \in [1..Cardinality(E) -> E] : \A i, j \in 1..Cardinality(E) : o[i] = o[j] => i = j}

\* C23: whatever the order in which the accusations of a DAY_ACCUSING state,
\* or the votes of the werewolves of a NIGHT state, were cast, advance_phase
\* leaves the same match: the same accusee or none, the same victim or none.
C23_PluralityOrderIndependent ==
    /\ phase = DAY_ACCUSING =>
          \A o \in Orders(accusing_votes) : advance_accusing_cast(self, o) = advance_phase(self)
    /\ phase = NIGHT =>
          \A o \in Orders(Entries(wolves_votes)) : advance_night_cast(self, o) = advance_phase(self)

\* C23, its case: three accusations on two players, the first one cast in
\* some order being for the player with the fewer votes, and the other
\* player is put to the ballot all the same.
C23_Witness ==
    /\ phase = DAY_ACCUSING
    /\ Cardinality(accusing_votes) = 3
    /\ \E o \in Orders(accusing_votes) :
          LET g == advance_accusing_cast(self, o)
          IN /\ g.phase = DAY_BALLOT
             /\ g.current_accusation # o[1].v
             /\ g = advance_phase(self)

\* C24: a vote-map entry stored under a player is still stored under the
\* hash of that player, and is found by a lookup of that player whatever the
\* lookup runs into, after the status of the player has changed from ALIVE
\* to PROTECTED in the round.
C24_KeyStableUnderProtection ==
    \A p \in Players :
        status[p] = PROTECTED =>
            \A E \in {accusing_votes, ballot_votes, Entries(wolves_votes)} :
                (\E e \in E : e.k = p) =>
                    /\ \A e \in E : e.k = p => e.h = status[p]
                    /\ \A hh \in ProbeChoices(E, status, {p}) : Lookup(E, status, p, hh) # {}

\* C25: a status change made by advance_phase, kill_player or
\* perform_night_action after a roster was obtained from Game.players is
\* not visible through that roster: each of its players reads as it read
\* when the roster was obtained.
C25_RosterIsACopy ==
    LET roster == players_copy(self)
        Unchanged(g) == \A ref \in roster : player_at(ref, g) = player_at(ref, self)
    IN /\ Unchanged(advance_phase(self))
       /\ \A player_id \in Ids : \A hh \in KillProbes(player_id) :
             Unchanged(kill_player(self, player_id, hh))
       /\ \A actor_id \in Ids : \A hh \in NightProbes(actor_id) : \A target_id \in Ids :
             Unchanged(perform_night_action(self, actor_id, target_id, hh))

C27_AccusationOnlyInBallot ==
    /\ phase # DAY_BALLOT => current_accusation = None
    /\ current_accusation # None => current_accusation \in Players

\* Do the entries E hold at most one entry per voter, and none with a DEAD
\* voter?
VotersWellKept(E) ==
    /\ \A e, f \in E : e.k = f.k => e = f
    /\ \A e \in E : status[e.k] # DEAD

\* C28: while the phase is DAY_ACCUSING the accusation map, while it is
\* DAY_BALLOT the ballot map and while it is NIGHT the map of the votes of the
\* werewolves hold at most one entry per voter, and no entry with a DEAD
\* player as voter or, in the two maps that name one, as target.
C28_VoteMapsWellKept ==
    /\ phase = DAY_ACCUSING =>
          /\ VotersWellKept(accusing_votes)
          /\ \A e \in accusing_votes : status[e.v] # DEAD
    /\ phase = DAY_BALLOT => VotersWellKept(ballot_votes)
    /\ phase = NIGHT =>
          /\ VotersWellKept(Entries(wolves_votes))
          /\ \A i, j \in DOMAIN wolves_votes : wolves_votes[i].k = wolves_votes[j].k => i = j
          /\ \A e \in Entries(wolves_votes) : status[e.v] # DEAD

\* C29: at most one player is PROTECTED, in every state of a match played
\* through Game and in every state of a rule chain, the chains that wrap the
\* EscortGameInfoDecorator included.
C29_OneProtected ==
    Cardinality({p \in Players : status[p] = PROTECTED}) <= 1

\* C29, its case: the night of a match in which the player the escort
\* protected first was killed and the escort has protected another player.
C29_Witness ==
    /\ Players = EscortRoster
    /\ phase = NIGHT
    /\ protected_player # None
    /\ status[protected_player] = PROTECTED
    /\ \E p \in Players : status[p] = DEAD /\ escort_action(self, p).ret = "ValueError"
    /\ status["Charlie"] = ALIVE

\* Is e the vote of a werewolf for a player that is no werewolf?
WolfVote(e) == role(e.k) = WEREWOLF /\ role(e.v) # WEREWOLF

\* C30: every entry of the map of the votes of the werewolves, in a match
\* played through Game and in a rule chain, is the vote of a werewolf for a
\* player that is no werewolf and was not DEAD when the vote was cast; a
\* night action of a werewolf that names a werewolf or a DEAD player fails
\* with an error and records nothing.
C30_WerewolfVotesWellFormed ==
    IF Players = RulesRoster
    THEN /\ \A e \in rules.werewolves_votes : WolfVote(e)
         /\ \A actor \in Players : \A hh \in NightActionProbes(actor) : \A target \in Players :
               role(actor) = WEREWOLF =>
                   LET r == handle_night_actions(info, actor, target, hh)
                   IN /\ \A e \in r.werewolves_votes \ rules.werewolves_votes :
                             WolfVote(e) /\ status[e.v] # DEAD
                      /\ (role(target) = WEREWOLF \/ status[target] = DEAD)
                             => r = Raise(info, "ValueError")
    ELSE /\ \A e \in Entries(wolves_votes) : WolfVote(e)
         /\ \A actor \in Players : \A hh \in NightProbes(actor) : \A target \in Players :
               role(actor) = WEREWOLF =>
                   LET g == perform_night_action(self, actor, target, hh)
                   IN /\ \A e \in Entries(g.wolves_votes) \ Entries(wolves_votes) :
                             WolfVote(e) /\ status[e.v] # DEAD
                      /\ (role(target) = WEREWOLF \/ status[target] = DEAD)
                             => Raised(g) /\ g = Raise(self, g.ret)

\* C31: votes never carry over between rounds.  In the step in which the
\* phase becomes DAY_ACCUSING the accusation map is empty, in the step in
\* which it becomes DAY_BALLOT the ballot map is empty, in the step in which
\* it becomes NIGHT the map of the votes of the werewolves is empty and no
\* player is recorded as protected or PROTECTED; and advance_phase called at
\* NIGHT leaves the three maps empty.
C31_VotesNeverCarryOver ==
    /\ [][(phase' # phase) =>
            /\ phase' = DAY_ACCUSING => accusing_votes' = {}
            /\ phase' = DAY_BALLOT => ballot_votes' = {}
            /\ phase' = NIGHT =>
                  /\ wolves_votes' = << >>
                  /\ protected_player' = None
                  /\ \A p \in Players : status'[p] # PROTECTED]_vars
    /\ [](phase = NIGHT =>
            LET g == advance_phase(self)
            IN g.accusing_votes = {} /\ g.ballot_votes = {} /\ g.wolves_votes = << >>)

\* C31, its case: a night at the end of a round that has left entries in
\* each of the three maps, and advance_phase resolves it into a new day.
C31_Witness ==
    /\ phase = NIGHT
    /\ ballot_votes # {}
    /\ accusing_votes # {}
    /\ wolves_votes # << >>
    /\ advance_phase(self).phase = DAY_DISCUSSION

\* The phase changes of a round.
RoundEdges ==
    { << DAY_DISCUSSION, DAY_ACCUSING >>, << DAY_ACCUSING, DAY_BALLOT >>,
      << DAY_ACCUSING, NIGHT >>, << DAY_BALLOT, NIGHT >>, << NIGHT, DAY_DISCUSSION >> }

\* C32: a new Game is in DAY_DISCUSSION with every player ALIVE; every step
\* that changes the phase follows an edge of the round or leads from a phase
\* that is no victory to a victory; and accuse_player, ballot_vote and
\* perform_night_action leave the phase as it is, whatever their arguments.
C32_PhaseEdges ==
    /\ phase = DAY_DISCUSSION /\ \A p \in Players : status[p] = ALIVE
    /\ [][(phase' # phase) =>
            \/ << phase, phase' >> \in RoundEdges
            \/ phase \notin VictoryPhases /\ phase' \in VictoryPhases]_vars
    /\ [](/\ \A voter_id \in Ids : \A hh \in AccuseProbes(voter_id) : \A target_id \in Ids :
                accuse_player(self, voter_id, target_id, hh).phase = phase
          /\ \A voter_id \in Ids : \A hh \in BallotProbes(voter_id) : \A vote \in BOOLEAN :
                ballot_vote(self, voter_id, vote, hh).phase = phase
          /\ \A actor_id \in Ids : \A hh \in NightProbes(actor_id) : \A target_id \in Ids :
                perform_night_action(self, actor_id, target_id, hh).phase = phase)

\* C32, its case: a ballot that has votes and whose accused is the last
\* werewolf alive, so that advance_phase can lead to NIGHT or to a victory.
C32_Witness ==
    /\ phase = DAY_BALLOT
    /\ ballot_votes # {}
    /\ current_accusation # None
    /\ advance_phase(self).phase \in {NIGHT, VILLAGERS_VICTORY}
    /\ ballot_vote(self, "Alice", TRUE, probe).phase = DAY_BALLOT

\* The rule chain of BasicGameInfoFactory.build() in the night state that
\* corresponds to the one of the game g: the same players with the same
\* status, the same werewolf votes, the same protected player, the escort
\* having acted when a player is protected, and no clairvoyant or medium
\* action yet.
CorrespondingRules(g) ==
    [ chain |-> BasicGameInfoFactory_build,
      accusation_votes |-> {},
      ballot_votes |-> {},
      werewolves_votes |-> Entries(g.wolves_votes),
      clairvoyant_acted |-> FALSE,
      escort_acted |-> g.protected_player # None,
      protected_player |-> g.protected_player,
      medium_acted |-> FALSE,
      status |-> g.status,
      ret |-> None ]

\* C33: in a night state of the game and the corresponding state of the
\* chain of BasicGameInfoFactory.build(), perform_night_action(actor,
\* target) raises exactly when handle_night_actions(actor, target) raises,
\* returns the same value, and leaves the same werewolf votes, the same
\* protected player and the same status of every player.
C33_NightActionsAgree ==
    phase = NIGHT =>
        \A actor \in Players : is_alive(status, actor) =>
            \A hh \in NightProbes(actor) : \A target \in Players :
                LET g == perform_night_action(self, actor, target, hh)
                    r == handle_night_actions(CorrespondingRules(self), actor, target, hh)
                IN /\ Raised(g) <=> Raised(r)
                   /\ g.ret = r.ret
                   /\ Entries(g.wolves_votes) = r.werewolves_votes
                   /\ g.protected_player = r.protected_player
                   /\ g.status = r.status

\* C34: whatever the assignment of ALIVE, PROTECTED or DEAD to the roster,
\* Game.__check_victory_conditions called in a phase that is no victory
\* leaves VILLAGERS_VICTORY, WEREWOLVES_VICTORY or the phase it found
\* exactly as MinimalGameInfo.end_game_conditions returns VILLAGERS_VICTORY,
\* WEREWOLVES_VICTORY or None for the same players.
C34_VictoryChecksAgree ==
    phase \notin VictoryPhases =>
        \A st \in [Players -> {ALIVE, PROTECTED, DEAD}] :
            LET g == check_victory_conditions([self EXCEPT !.status = st])
            IN (IF g.phase \in VictoryPhases THEN g.phase ELSE None) = end_game_conditions(st)

\* C35: no step of a Game (advance_phase, kill_player, accuse_player,
\* ballot_vote, perform_night_action) takes a player whose status is DEAD
\* to another status, and the new day that advance_phase opens at the end
\* of a night leaves every DEAD player DEAD.
C35_DeathIsPermanent ==
    /\ [][\A p \in Players : status[p] = DEAD => status'[p] = DEAD]_vars
    /\ [](\A p \in Players : status[p] = DEAD => advance_phase(self).status[p] = DEAD)

\* C35, its case: a night in which a player is protected and another is
\* DEAD, resolved by advance_phase into a new day that resets the protected
\* player.
C35_Witness ==
    /\ phase = NIGHT
    /\ protected_player # None
    /\ \E p \in Players : status[p] = DEAD
    /\ advance_phase(self).phase = DAY_DISCUSSION
    /\ advance_phase(self).status[protected_player] = ALIVE

\* C36: reset_actions on a rule chain, the ones with the
\* EscortGameInfoDecorator included, leaves every player whose status is
\* DEAD with the status DEAD, the player protected this night and set to
\* DEAD since then included.
C36_ResetKeepsTheDeadDead ==
    \A p \in Players : status[p] = DEAD => reset_actions(info).status[p] = DEAD

\* The players whose status a call that leaves the game g has changed to DEAD.
NewlyDead(g) == {p \in Players : status[p] # DEAD /\ g.status[p] = DEAD}

\* C37: a call of advance_phase changes the status of at most one player to
\* DEAD, and one made in DAY_DISCUSSION or DAY_ACCUSING changes the status
\* of no player.
C37_AtMostOneDeathPerAdvance ==
    LET g == advance_phase(self)
    IN /\ Cardinality(NewlyDead(g)) <= 1
       /\ phase \in {DAY_DISCUSSION, DAY_ACCUSING} => g.status = status

\* C37, its case: a night in which the two werewolves have voted, and
\* advance_phase kills the player they named.
C37_Witness ==
    /\ phase = NIGHT
    /\ Len(wolves_votes) >= 2
    /\ Cardinality(NewlyDead(advance_phase(self))) = 1

\* C38: whenever the phase is DAY_BALLOT the pending accusation is set, the
\* player it references is not DEAD, and at least one accusation vote of
\* the round names that player.
C38_BallotHasAnAccused ==
    phase = DAY_BALLOT =>
        /\ current_accusation # None
        /\ current_accusation \in Players
        /\ status[current_accusation] # DEAD
        /\ \E e \in accusing_votes : e.v = current_accusation

\* C38, its case: a ballot in which a player has died after voting and the
\* votes on the accused are still open.
C38_Witness ==
    /\ phase = DAY_BALLOT
    /\ \E p \in Players : status[p] = DEAD
    /\ ballot_votes # {}

\* The phases the round is played towards: the discussion that opens a day,
\* and the victories.
RoundEnds == {DAY_DISCUSSION} \cup VictoryPhases

\* An upper bound on the advance_phase calls it takes from a phase to reach
\* one of RoundEnds.
CallsToRoundEnd(ph) ==
    IF ph = NIGHT THEN 1
    ELSE IF ph = DAY_BALLOT THEN 2
    ELSE IF ph = DAY_ACCUSING THEN 3
    ELSE IF ph = DAY_DISCUSSION THEN 4
    ELSE 0

\* C39: advance_phase raises in no state; called in a phase that is no
\* victory it changes the phase; four calls in a row reach DAY_DISCUSSION or
\* a victory; and whatever the operations made in between, a step that
\* changes the phase reaches DAY_DISCUSSION or a victory or leaves fewer
\* advance_phase calls to go, of which there are at most four.
C39_AdvanceMakesProgress ==
    /\ [](LET g1 == advance_phase(self)
              g2 == advance_phase(g1)
              g3 == advance_phase(g2)
              g4 == advance_phase(g3)
          IN /\ ~Raised(g1) /\ ~Raised(g2) /\ ~Raised(g3) /\ ~Raised(g4)
             /\ g1.ret = g1.phase
             /\ phase \notin VictoryPhases =>
                   /\ g1.phase # phase
                   /\ g1.phase \in RoundEnds
                         \/ CallsToRoundEnd(g1.phase) < CallsToRoundEnd(phase)
                   /\ \E g \in {g1, g2, g3, g4} : g.phase \in RoundEnds)
    /\ [][(phase' # phase) =>
            \/ phase' \in RoundEnds
            \/ CallsToRoundEnd(phase') < CallsToRoundEnd(phase)]_vars

\* C39, its case: accusations have been cast since the day began, and three
\* more advance_phase calls go through the ballot and the night to the
\* discussion of the next day.
C39_Witness ==
    /\ phase = DAY_ACCUSING
    /\ accusing_votes # {}
    /\ advance_phase(self).phase = DAY_BALLOT
    /\ advance_phase(advance_phase(self)).phase = NIGHT
    /\ advance_phase(advance_phase(advance_phase(self))).phase = DAY_DISCUSSION
====
